---- MODULE Spec2Model ----
(***************************************************************************)
(* Goodreads <-> Skoob synchronisation: the outbound orchestrator          *)
(* (sync_to_skoob.run), its locate cascade and status-setter, and the      *)
(* inbound orchestrator (sync_to_goodreads.run) with its shelf paginator.  *)
(*                                                                         *)
(* The browser and the remote site are the environment: every call into    *)
(* Playwright is an input drawn from a small set (what the page shows, and *)
(* whether the call raises).  Strings that the code inspects character by  *)
(* character (titles, ISBNs) are sequences of one-character strings.       *)
(***************************************************************************)
EXTENDS Integers, Sequences, FiniteSets, TLC

VARIABLES
    direction,      \* main.py: args.direction
    trace,          \* history: remote interactions and jitters, in order
    \* ---- sync_to_skoob.run ------------------------------------------------
    df,             \* the DataFrame handed to run(): a sequence of rows
    out_pc,         \* position of run(): "loop", "search", "status", "jitter", "done", "idle"
    seq,            \* 1-based position of the row being processed
    queries,        \* the queries of the current cascade not yet attempted
    failed,         \* run(): failed (list of row dicts)
    failed_seq,     \* history: the row position behind each entry of failed
    failed_file,    \* content of FAILED_BOOKS_FILE, NoFile while not written
    out_signal,     \* final log line of run(): "none", "failures", "clean"
    landed,         \* where the last query attempt left the page: "none" before
                    \*   any attempt, "livro" (a result was clicked and page.url
                    \*   holds "/livro/"), "other" (clicked, another URL), "home"
                    \*   (nothing clicked), "fault" (the attempt raised)
    issued,         \* history: the query text of every attempt, in order
    \* ---- sync_to_goodreads.run / _scrape_shelf ----------------------------
    user_id,        \* the user_id handed to run()
    in_pc,          \* position: "run", "shelf_loop", "goto", "loaded", "check_next",
                    \*           "shelf_ret", "done", "raised", "idle"
    status_pos,     \* position in SKOOB_STATUS_IDS.items()
    all_books,      \* run(): all_books
    books,          \* _scrape_shelf(): books
    current_page,   \* _scrape_shelf(): current_page
    served,         \* history: the pages the remote served for the current shelf
    exported,       \* argument of generate_goodreads_csv, NoFile while not called
    in_signal,      \* "none", "no_user", "exported", "nothing_found"
    returned,       \* history: the list each call of _scrape_shelf returned
    \* ---- main.py ----------------------------------------------------------
    main_pc,        \* position of main(): "preflight", "login", "to_skoob",
                    \*   "between", "to_goodreads", "close", "done", "exit",
                    \*   "crashed", "idle"
    csv,            \* the file at args.csv
    \* ---- sync_to_skoob._set_status ----------------------------------------
    st_target,      \* target_status
    st_page,        \* what the detail page answers to each click candidate
    st_log,         \* history: the candidates probed so far, with the answer
    st_ret          \* "none" while running, then "True" or "False"

vars == <<direction, trace, df, out_pc, seq, queries, failed, failed_seq,
          failed_file, out_signal, landed, issued, user_id, in_pc, status_pos,
          all_books,
          books, current_page, served, exported, in_signal, returned,
          main_pc, csv, st_target, st_page, st_log, st_ret>>

outVars == <<df, out_pc, seq, queries, failed, failed_seq, failed_file, out_signal,
            landed, issued>>
inVars == <<user_id, in_pc, status_pos, all_books, books, current_page, served,
            exported, in_signal, returned>>
mainVars == <<main_pc, csv>>
stVars == <<st_target, st_page, st_log, st_ret>>

\* ---------------------------------------------------------------------------
\* Bounds
\* ---------------------------------------------------------------------------
MaxRows == 2        \* rows of the DataFrame handed to the outbound run
MaxPage == 3        \* pages one stand-alone call of _scrape_shelf may fetch
MaxCards == 2       \* .box_livro cards on one shelf page (stand-alone call)
RunMaxPage == 2     \* pages per shelf inside the inbound run
RunMaxCards == 1    \* cards per page inside the inbound run (all readable)
MaxProbe == 2       \* last click candidate of _set_status that the page answers
MainMaxRows == 1    \* rows of the import file in a run of main()
MainMaxPage == 1    \* pages per shelf in a run of main() (one readable card each)
LoadMaxRows == 3    \* rows of the import file handed to load_goodreads_csv alone
MaxTitleLen == 5    \* characters of a title handed to _clean_title alone

None == "None"

\* a file of rows: not written yet, or written with these rows
NoFile == [written |-> FALSE, rows |-> <<>>]
File(rows) == [written |-> TRUE, rows |-> rows]

\* ---------------------------------------------------------------------------
\* config.py
\* ---------------------------------------------------------------------------
GOODREADS_TO_SKOOB_SHELF == [s \in {"read"} |-> "Lido"]

SKOOB_STATUS_IDS ==
    << <<1, "Lido">>, <<2, "Lendo">>, <<3, "Quero Ler">>,
       <<5, "Abandonei">>, <<6, "Relendo">> >>

SKOOB_TO_GOODREADS_SHELF ==
    [l \in {"Lido", "Lendo", "Quero Ler"} |->
        CASE l = "Lido" -> "read"
          [] l = "Lendo" -> "currently-reading"
          [] l = "Quero Ler" -> "to-read"]

\* dict.get(key): the value, or None when the key is absent
TargetStatus_default(shelf) ==
    IF shelf \in DOMAIN GOODREADS_TO_SKOOB_SHELF
    THEN GOODREADS_TO_SKOOB_SHELF[shelf] ELSE "Lido"

TargetStatus(shelf) ==
    IF shelf \in DOMAIN GOODREADS_TO_SKOOB_SHELF
    THEN GOODREADS_TO_SKOOB_SHELF[shelf] ELSE None

GoodreadsShelf(label) ==
    IF label \in DOMAIN SKOOB_TO_GOODREADS_SHELF
    THEN SKOOB_TO_GOODREADS_SHELF[label] ELSE None

\* ---------------------------------------------------------------------------
\* Strings as sequences of characters
\* ---------------------------------------------------------------------------
IsSpace(c) == c = " "

RECURSIVE LStrip(_)
LStrip(s) == IF s # <<>> /\ IsSpace(Head(s)) THEN LStrip(Tail(s)) ELSE s

RECURSIVE RStrip(_)
RStrip(s) ==
    IF s # <<>> /\ IsSpace(s[Len(s)]) THEN RStrip(SubSeq(s, 1, Len(s) - 1)) ELSE s

\* str.strip()
Strip(s) == RStrip(LStrip(s))

\* the text from position i on matches  \s*\(.*?\)\s*$
SuffixMatches(s, i) ==
    \E j \in i..Len(s) :
        /\ \A m \in i..(j - 1) : IsSpace(s[m])
        /\ s[j] = "("
        /\ \E k \in (j + 1)..Len(s) :
              /\ s[k] = ")"
              /\ \A m \in (k + 1)..Len(s) : IsSpace(s[m])

\* re.sub(r"\s*\(.*?\)\s*$", "", title).strip(), or the title when that is empty.
\* The pattern is anchored to the end, so the leftmost match removes everything
\* from its start to the end of the string.
_clean_title(title) ==
    LET starts == {i \in 1..Len(title) : SuffixMatches(title, i)}
        first == CHOOSE i \in starts : \A j \in starts : i <= j
        subbed == IF starts = {} THEN title ELSE SubSeq(title, 1, first - 1)
        cleaned == Strip(subbed)
    IN  IF cleaned # <<>> THEN cleaned ELSE title

\* ---------------------------------------------------------------------------
\* History: one event per remote interaction, jitter or collaborator call
\* ---------------------------------------------------------------------------
Event(op, n, what, result) == [op |-> op, n |-> n, what |-> what, result |-> result]

\* _jitter(): time.sleep(random.uniform(JITTER_MIN, JITTER_MAX))
JitterEvent == Event("jitter", 0, "", "")

\* ---------------------------------------------------------------------------
\* Inputs of the outbound run
\* ---------------------------------------------------------------------------
Titles == { <<"x">>, <<"x", " ", "(", "y", ")">> }
Authors == { <<"a">> }
Isbns == { <<>>, <<"9">> }
Shelves == {"read", "to-read"}

Rows == [shelf : Shelves, Title : Titles, Author : Authors, clean_isbn : Isbns]

RECURSIVE SeqsUpTo(_, _)
SeqsUpTo(S, n) ==
    IF n = 0 THEN {<<>>}
    ELSE LET shorter == SeqsUpTo(S, n - 1)
         IN  shorter \cup {Append(q, x) : q \in {r \in shorter : Len(r) = n - 1}, x \in S}

\* ---------------------------------------------------------------------------
\* sync_to_skoob._search_and_open_book: the ordered query list
\* ---------------------------------------------------------------------------
Query(label, text) == [label |-> label, text |-> text]

BuildQueries_titleFirst(isbn, title, author) ==
    LET clean_title == _clean_title(title)
    IN  (IF Strip(isbn) # <<>> THEN <<Query("ISBN", Strip(isbn))>> ELSE <<>>)
        \o <<Query("Title only", clean_title)>>
        \o <<Query("Title+Author", clean_title \o <<" ">> \o author)>>

BuildQueries(isbn, title, author) ==
    LET clean_title == _clean_title(title)
    IN  (IF Strip(isbn) # <<>> THEN <<Query("ISBN", Strip(isbn))>> ELSE <<>>)
        \o <<Query("Title+Author", clean_title \o <<" ">> \o author)>>
        \o <<Query("Title only", clean_title)>>

\* ---------------------------------------------------------------------------
\* sync_to_skoob._search_via_dropdown: one query attempt against the browser.
\* b.fault names the Playwright call of this attempt that raises, if any;
\* _find_search_input and _click_dropdown_result guard their own calls, so
\* what they meet is folded into inputFound and resultClicked.
\* ---------------------------------------------------------------------------
SearchFaults == {"none", "goto", "click", "fill", "type", "load"}

Browsers ==
    [fault : SearchFaults, inputFound : BOOLEAN, resultClicked : BOOLEAN,
     urlLivro : BOOLEAN]

\* Where an attempt leaves the page: the home page until a result is clicked,
\* then whatever the click navigated to; unknown when a call raised.
Landing(b) ==
    IF b.fault = "goto" THEN "fault"
    ELSE IF ~b.inputFound THEN "home"
    ELSE IF b.fault \in {"click", "fill", "type"} THEN "fault"
    ELSE IF b.resultClicked
         THEN IF b.fault = "load" THEN "fault"
              ELSE IF b.urlLivro THEN "livro" ELSE "other"
         ELSE "home"

_search_via_dropdown_anyClick(b) ==
    IF b.fault = "goto" THEN "Raise"
    ELSE IF ~b.inputFound THEN "False"
    ELSE IF b.fault \in {"click", "fill", "type"} THEN "Raise"
    ELSE IF b.resultClicked
         THEN IF b.fault = "load" THEN "Raise" ELSE "True"
         ELSE "False"

_search_via_dropdown(b) ==
    IF b.fault = "goto" THEN "Raise"
    ELSE IF ~b.inputFound THEN "False"
    ELSE IF b.fault \in {"click", "fill", "type"} THEN "Raise"
    ELSE IF b.resultClicked
         THEN IF b.fault = "load" THEN "Raise"
              ELSE IF b.urlLivro THEN "True" ELSE "False"
         ELSE "False"

\* ---------------------------------------------------------------------------
\* sync_to_skoob._set_status: the ordered cascade of click candidates
\* ---------------------------------------------------------------------------
status_text_variants ==
    [t \in {"Lido", "Lendo", "Quero Ler"} |->
        CASE t = "Lido" -> <<"Lido", "lido", "Li", "li">>
          [] t = "Lendo" -> <<"Lendo", "lendo", "Estou lendo">>
          [] t = "Quero Ler" -> <<"Quero ler", "quero ler", "Quero Ler", "VOU LER", "Vou ler">>]

texts_to_try(target_status) ==
    IF target_status \in DOMAIN status_text_variants
    THEN status_text_variants[target_status] ELSE <<target_status>>

id_selectors ==
    <<"#bt_lido", "#bt_lendo", "#bt_quero", "#btn-lido", "#btn-lendo", "#btn-quero",
      "#btn-status-1", "#btn-status-2", "#btn-status-3">>

Candidate(kind, arg) == [kind |-> kind, arg |-> arg]

RECURSIVE RoleCandidates(_)
RoleCandidates(texts) ==
    IF texts = <<>> THEN <<>>
    ELSE <<Candidate("button", Head(texts)), Candidate("link", Head(texts))>>
         \o RoleCandidates(Tail(texts))

Candidates(target_status) ==
    LET texts == texts_to_try(target_status)
    IN  RoleCandidates(texts)
        \o [i \in 1..Len(texts) |-> Candidate("css", texts[i])]
        \o [i \in 1..Len(id_selectors) |-> Candidate("id", id_selectors[i])]

\* What the detail page does to each candidate probe: "ok" (present, visible,
\* clicked), "absent" (count 0 or not visible) or "fault" (the probe raises and
\* the inner except swallows it).  At most one candidate clicks and at most
\* one raises, both among the first MaxProbe.  Every call that can raise sits
\* inside one of the inner try blocks (page.url at line 273 is a plain
\* attribute), so the outer handler of lines 339-341 has nothing to catch.
StatusPages(target_status) ==
    LET n == Len(Candidates(target_status))
        m == IF n < MaxProbe THEN n ELSE MaxProbe
    IN  { [probe |-> [i \in 1..n |-> IF i = k THEN "ok"
                                     ELSE IF i = j THEN "fault" ELSE "absent"]] :
            k \in 0..m, j \in 0..m }

RECURSIVE FirstOk(_, _)
FirstOk(probe, i) ==
    IF i > Len(probe) THEN 0
    ELSE IF probe[i] = "ok" THEN i ELSE FirstOk(probe, i + 1)

_set_status(pg, target_status) == FirstOk(pg.probe, 1) # 0

\* ---------------------------------------------------------------------------
\* _set_status step by step: one action per candidate probe
\* ---------------------------------------------------------------------------
\* What one probe can meet: count() is 0; the element is not visible; it is
\* clicked and the wait ends; or count(), is_visible(), click() or
\* wait_for_timeout() raises.  "click_raises" is a click that raised before
\* it acted on the element, "wait_raises" an exception after the click went
\* through.
ProbeAnswers ==
    {"ok", "absent", "hidden", "count_raises", "visible_raises", "click_raises",
     "wait_raises"}

ProbeRaises(a) == a \in {"count_raises", "visible_raises", "click_raises", "wait_raises"}

Probed(cand, answer) == [cand |-> cand, answer |-> answer]

SetStatusProbe_unguarded ==
    /\ st_ret = "none"
    /\ Len(st_log) < Len(Candidates(st_target))
    /\ LET i == Len(st_log) + 1
       IN  /\ st_log' = Append(st_log, Probed(Candidates(st_target)[i], st_page[i]))
           /\ st_ret' = IF st_page[i] = "ok" THEN "True"
                        ELSE IF ProbeRaises(st_page[i]) THEN "Raise" ELSE "none"
    /\ UNCHANGED <<direction, mainVars, trace, outVars, inVars, st_target, st_page>>

\* lines 285-334: the next candidate is probed inside its own try block; a
\* click that went through returns True, anything else (also an exception)
\* leads to the next candidate
SetStatusProbe ==
    /\ st_ret = "none"
    /\ Len(st_log) < Len(Candidates(st_target))
    /\ LET i == Len(st_log) + 1
       IN  /\ st_log' = Append(st_log, Probed(Candidates(st_target)[i], st_page[i]))
           /\ st_ret' = IF st_page[i] = "ok" THEN "True" ELSE "none"
    /\ UNCHANGED <<direction, mainVars, trace, outVars, inVars, st_target, st_page>>

\* lines 336-337: no candidate is left
SetStatusExhausted ==
    /\ st_ret = "none"
    /\ Len(st_log) = Len(Candidates(st_target))
    /\ st_ret' = "False"
    /\ UNCHANGED <<direction, mainVars, trace, outVars, inVars, st_target, st_page,
                   st_log>>

BoolStr(b) == IF b THEN "True" ELSE "False"

\* ===========================================================================
\* sync_to_skoob.run
\* ===========================================================================
Row == df[seq]

\* lines 41-50: a row whose shelf has no target status is skipped (continue)
OutSkip ==
    /\ out_pc = "loop"
    /\ seq <= Len(df)
    /\ TargetStatus(Row.shelf) = None
    /\ seq' = seq + 1
    /\ UNCHANGED <<direction, mainVars, stVars,
                   trace, df, out_pc, queries, failed, failed_seq,
                   failed_file, out_signal, landed, issued, inVars>>

\* lines 41-55 and 99-105: a mapped row enters _search_and_open_book
OutBegin ==
    /\ out_pc = "loop"
    /\ seq <= Len(df)
    /\ TargetStatus(Row.shelf) # None
    /\ queries' = BuildQueries(Row.clean_isbn, Row.Title, Row.Author)
    /\ out_pc' = "search"
    /\ UNCHANGED <<direction, mainVars, stVars,
                   trace, df, seq, failed, failed_seq, failed_file,
                   out_signal, landed, issued, inVars>>

AttemptOutcome_swallow(r, remaining) ==
    IF r = "True" THEN "found"
    ELSE IF remaining # <<>> THEN "next" ELSE "not_found"

\* What one attempt means for the cascade (lines 107-115) and for run
\* (lines 55-59, 68-70): "found", "next" (try the next query), "not_found"
\* (the list is exhausted) or "error" (the fault reaches run's except).
AttemptOutcome(r, remaining) ==
    IF r = "True" THEN "found"
    ELSE IF r = "Raise" THEN "error"
    ELSE IF remaining # <<>> THEN "next" ELSE "not_found"

\* One pass of the for loop of _search_and_open_book, with what follows in run
\* up to the next remote interaction or jitter.
OutSearch ==
    /\ out_pc = "search"
    /\ \E b \in Browsers :
        LET q == Head(queries)
            r == _search_via_dropdown(b)
            o == AttemptOutcome(r, Tail(queries))
            ev == Event("search", seq, q.label, r)
        IN  /\ trace' = IF o = "next" THEN Append(trace, ev)
                        ELSE trace \o <<ev, Event("locate", seq, "", r)>>
            /\ queries' = IF o = "next" THEN Tail(queries) ELSE <<>>
            /\ out_pc' = CASE o = "found" -> "status"
                           [] o = "next" -> "search"
                           [] o = "not_found" -> "loop"
                           [] o = "error" -> "jitter"
            /\ seq' = IF o = "not_found" THEN seq + 1 ELSE seq
            /\ failed' = IF o \in {"not_found", "error"} THEN Append(failed, Row)
                         ELSE failed
            /\ failed_seq' = IF o \in {"not_found", "error"} THEN Append(failed_seq, seq)
                             ELSE failed_seq
            /\ landed' = Landing(b)
            /\ issued' = Append(issued, q.text)
    /\ UNCHANGED <<direction, mainVars, stVars,
                   df, failed_file, out_signal, inVars>>

OutSetStatus_failOnFalse ==
    /\ out_pc = "status"
    /\ \E pg \in StatusPages(TargetStatus(Row.shelf)) :
        LET r == _set_status(pg, TargetStatus(Row.shelf))
        IN  /\ trace' = Append(trace, Event("set_status", seq, TargetStatus(Row.shelf), BoolStr(r)))
            /\ failed' = IF r THEN failed ELSE Append(failed, Row)
            /\ failed_seq' = IF r THEN failed_seq ELSE Append(failed_seq, seq)
    /\ out_pc' = "jitter"
    /\ UNCHANGED <<direction, mainVars, stVars,
                   df, seq, queries, failed_file, out_signal, landed, issued, inVars>>

\* lines 61-66: the status-setter; neither branch touches the failure list
OutSetStatus ==
    /\ out_pc = "status"
    /\ \E pg \in StatusPages(TargetStatus(Row.shelf)) :
        LET r == _set_status(pg, TargetStatus(Row.shelf))
        IN  trace' = Append(trace, Event("set_status", seq, TargetStatus(Row.shelf), BoolStr(r)))
    /\ out_pc' = "jitter"
    /\ UNCHANGED <<direction, mainVars, stVars,
                   df, seq, queries, failed, failed_seq, failed_file,
                   out_signal, landed, issued, inVars>>

\* line 72
OutJitter ==
    /\ out_pc = "jitter"
    /\ trace' = Append(trace, JitterEvent)
    /\ seq' = seq + 1
    /\ out_pc' = "loop"
    /\ UNCHANGED <<direction, mainVars, stVars,
                   df, queries, failed, failed_seq, failed_file,
                   out_signal, landed, issued, inVars>>

OutFinish_always ==
    /\ out_pc = "loop"
    /\ seq > Len(df)
    /\ failed_file' = File(failed)
    /\ out_signal' = IF failed # <<>> THEN "failures" ELSE "clean"
    /\ out_pc' = "done"
    /\ UNCHANGED <<direction, mainVars, stVars,
                   trace, df, seq, queries, failed, failed_seq, landed, issued, inVars>>

\* lines 74-79: persist failures, or signal a clean run
OutFinish ==
    /\ out_pc = "loop"
    /\ seq > Len(df)
    /\ failed_file' = IF failed # <<>> THEN File(failed) ELSE failed_file
    /\ out_signal' = IF failed # <<>> THEN "failures" ELSE "clean"
    /\ out_pc' = "done"
    /\ UNCHANGED <<direction, mainVars, stVars,
                   trace, df, seq, queries, failed, failed_seq, landed, issued, inVars>>

NextOutbound == OutSkip \/ OutBegin \/ OutSearch \/ OutSetStatus \/ OutJitter \/ OutFinish

\* ===========================================================================
\* sync_to_goodreads.run and _scrape_shelf
\* ===========================================================================
StatusId == SKOOB_STATUS_IDS[status_pos][1]
StatusLabel == SKOOB_STATUS_IDS[status_pos][2]

\* A shelf page as the browser shows it: one flag per .box_livro card (whether
\* _extract_book_from_card can read it), whether a next-page link is present,
\* and whether loading the page or counting its cards raises (such a page
\* shows nothing).
Pages(maxCards, flags) ==
    { pg \in [cards : SeqsUpTo(flags, maxCards), next : BOOLEAN, raises : BOOLEAN] :
        pg.raises => (pg.cards = <<>> /\ ~pg.next) }

UserIds == {"", "42"}

\* the None that _extract_book_from_card returns, as a record
NoBook == [title |-> <<>>, shelves |-> None]

_extract_book_from_card_read(usable, sid, pageno, i, goodreads_shelf) ==
    IF usable THEN [title |-> <<sid, pageno, i>>, shelves |-> "read"]
    ELSE NoBook

\* _extract_book_from_card: the dict of the card (its title stands for the
\* card's place on the shelf), or None when reading the card raises
_extract_book_from_card(usable, sid, pageno, i, goodreads_shelf) ==
    IF usable THEN [title |-> <<sid, pageno, i>>, shelves |-> goodreads_shelf]
    ELSE NoBook

\* lines 96-100: the books of one page, in card order, None dropped
RECURSIVE ExtractPage(_, _, _, _, _)
ExtractPage(cards, sid, pageno, i, goodreads_shelf) ==
    IF i > Len(cards) THEN <<>>
    ELSE LET book == _extract_book_from_card(cards[i], sid, pageno, i, goodreads_shelf)
         IN  (IF book # NoBook THEN <<book>> ELSE <<>>)
             \o ExtractPage(cards, sid, pageno, i + 1, goodreads_shelf)

InRunStart_noCheck ==
    /\ in_pc = "run"
    /\ in_signal' = in_signal
    /\ in_pc' = "shelf_loop"
    /\ UNCHANGED <<direction, mainVars, stVars,
                   trace, outVars, user_id, returned, status_pos, all_books, books,
                   current_page, served, exported>>

\* lines 33-41
InRunStart ==
    /\ in_pc = "run"
    /\ IF user_id = ""
       THEN /\ in_signal' = "no_user"
            /\ in_pc' = "done"
       ELSE /\ in_signal' = in_signal
            /\ in_pc' = "shelf_loop"
    /\ UNCHANGED <<direction, mainVars, stVars,
                   trace, outVars, user_id, returned, status_pos, all_books, books,
                   current_page, served, exported>>

\* lines 44-48
InShelfSkip ==
    /\ in_pc = "shelf_loop"
    /\ status_pos <= Len(SKOOB_STATUS_IDS)
    /\ GoodreadsShelf(StatusLabel) = None
    /\ status_pos' = status_pos + 1
    /\ UNCHANGED <<direction, mainVars, stVars,
                   trace, outVars, user_id, returned, in_pc, all_books, books,
                   current_page, served, exported, in_signal>>

\* lines 44-51 and 74-75
InShelfBegin ==
    /\ in_pc = "shelf_loop"
    /\ status_pos <= Len(SKOOB_STATUS_IDS)
    /\ GoodreadsShelf(StatusLabel) # None
    /\ books' = <<>>
    /\ current_page' = 1
    /\ served' = <<>>
    /\ in_pc' = "goto"
    /\ UNCHANGED <<direction, mainVars, stVars,
                   trace, outVars, user_id, returned, status_pos, all_books,
                   exported, in_signal>>

\* lines 78-85: load page current_page and count its cards
ScrapeGoto(pages, maxPage) ==
    /\ in_pc = "goto"
    /\ current_page <= maxPage
    /\ \E pg \in pages :
        /\ served' = Append(served, pg)
        /\ in_pc' = IF pg.raises THEN "raised" ELSE "loaded"
    /\ trace' = Append(trace, Event("goto", StatusId, current_page, ""))
    /\ UNCHANGED <<direction, mainVars, stVars,
                   outVars, user_id, returned, status_pos, all_books, books,
                   current_page, exported, in_signal>>

CurPage == served[Len(served)]

ScrapeEmpty_continue ==
    /\ in_pc = "loaded"
    /\ Len(CurPage.cards) = 0
    /\ current_page' = current_page + 1
    /\ in_pc' = "goto"
    /\ UNCHANGED <<direction, mainVars, stVars,
                   trace, outVars, user_id, returned, status_pos, all_books, books,
                   served, exported, in_signal>>

\* lines 87-92, 112-113: an empty page ends the shelf
ScrapeEmpty ==
    /\ in_pc = "loaded"
    /\ Len(CurPage.cards) = 0
    /\ in_pc' = "shelf_ret"
    /\ UNCHANGED <<direction, mainVars, stVars,
                   trace, outVars, user_id, returned, status_pos, all_books, books,
                   current_page, served, exported, in_signal>>

\* lines 94-100
ScrapeCards ==
    /\ in_pc = "loaded"
    /\ Len(CurPage.cards) > 0
    /\ books' = books \o ExtractPage(CurPage.cards, StatusId, current_page, 1,
                                     GoodreadsShelf(StatusLabel))
    /\ in_pc' = "check_next"
    /\ UNCHANGED <<direction, mainVars, stVars,
                   trace, outVars, user_id, returned, status_pos, all_books,
                   current_page, served, exported, in_signal>>

ScrapeNoNext_continue ==
    /\ in_pc = "check_next"
    /\ ~CurPage.next
    /\ current_page' = current_page + 1
    /\ in_pc' = "goto"
    /\ UNCHANGED <<direction, mainVars, stVars,
                   trace, outVars, user_id, returned, status_pos, all_books, books,
                   served, exported, in_signal>>

\* lines 104-107, 112-113: no next-page link ends the shelf
ScrapeNoNext ==
    /\ in_pc = "check_next"
    /\ ~CurPage.next
    /\ in_pc' = "shelf_ret"
    /\ UNCHANGED <<direction, mainVars, stVars,
                   trace, outVars, user_id, returned, status_pos, all_books, books,
                   current_page, served, exported, in_signal>>

NextPageNo_skip(p) == p + 2

NextPageNo(p) == p + 1

\* lines 109-110
ScrapeAdvance ==
    /\ in_pc = "check_next"
    /\ CurPage.next
    /\ current_page' = NextPageNo(current_page)
    /\ trace' = Append(trace, JitterEvent)
    /\ in_pc' = "goto"
    /\ UNCHANGED <<direction, mainVars, stVars,
                   outVars, user_id, returned, status_pos, all_books, books,
                   served, exported, in_signal>>

InExtend_prepend ==
    /\ in_pc = "shelf_ret"
    /\ direction # "shelf"
    /\ all_books' = books \o all_books
    /\ returned' = Append(returned, books)
    /\ status_pos' = status_pos + 1
    /\ in_pc' = "shelf_loop"
    /\ UNCHANGED <<direction, mainVars, stVars,
                   trace, outVars, user_id, books, current_page, served,
                   exported, in_signal>>

\* lines 51-52: books = _scrape_shelf(...); all_books.extend(books)
InExtend ==
    /\ in_pc = "shelf_ret"
    /\ direction # "shelf"
    /\ all_books' = all_books \o books
    /\ returned' = Append(returned, books)
    /\ status_pos' = status_pos + 1
    /\ in_pc' = "shelf_loop"
    /\ UNCHANGED <<direction, mainVars, stVars,
                   trace, outVars, user_id, books, current_page, served,
                   exported, in_signal>>

\* lines 54-57
InFinish ==
    /\ in_pc = "shelf_loop"
    /\ status_pos > Len(SKOOB_STATUS_IDS)
    /\ exported' = IF all_books # <<>> THEN File(all_books) ELSE exported
    /\ in_signal' = IF all_books # <<>> THEN "exported" ELSE "nothing_found"
    /\ in_pc' = "done"
    /\ UNCHANGED <<direction, mainVars, stVars,
                   trace, outVars, user_id, returned, status_pos, all_books, books,
                   current_page, served>>

ScrapeStep(pages, maxPage) ==
    \/ ScrapeGoto(pages, maxPage)
    \/ ScrapeEmpty
    \/ ScrapeCards
    \/ ScrapeNoNext
    \/ ScrapeAdvance

\* sync_to_goodreads.run against a remote that serves these pages
NextInboundWith(pages, maxPage) ==
    \/ InRunStart
    \/ InShelfSkip
    \/ InShelfBegin
    \/ ScrapeStep(pages, maxPage)
    \/ InExtend
    \/ InFinish

NextInbound == NextInboundWith(Pages(RunMaxCards, {TRUE}), RunMaxPage)

\* ===========================================================================
\* etl.load_goodreads_csv
\* ===========================================================================
\* pd.isna(val): the cell is empty
NaN == <<"nan">>

IsDigit(c) == c \in {"0", "1", "2", "3", "4", "5", "6", "7", "8", "9"}

\* _clean_isbn: "" for an empty cell, else the digits of str(val)
_clean_isbn(val) == IF val = NaN THEN <<>> ELSE SelectSeq(val, IsDigit)

RequiredColumns == {"ISBN13", "Exclusive Shelf"}

\* The file at args.csv as pathlib and pandas see it: whether it exists,
\* whether pd.read_csv can read it, its columns among the required ones, and
\* its rows.
CsvFile(rows, exists, parses, columns) ==
    [rows |-> rows, exists |-> exists, parses |-> parses, columns |-> columns]

NoCsv == CsvFile(<<>>, FALSE, FALSE, {})

\* df["clean_isbn"] = df["ISBN13"].apply(_clean_isbn)
WithCleanIsbn(r) ==
    [shelf |-> r.shelf, Title |-> r.Title, Author |-> r.Author,
     clean_isbn |-> _clean_isbn(r.ISBN13), ISBN13 |-> r.ISBN13]

IsRelevant_keepAll(r) == r.shelf = r.shelf

IsRelevant(r) == r.shelf \in DOMAIN GOODREADS_TO_SKOOB_SHELF

Exited == [exited |-> TRUE, frame |-> <<>>]
Loaded(frame) == [exited |-> FALSE, frame |-> frame]

\* sys.exit(1) at lines 29, 35, 40, or the filtered DataFrame
load_goodreads_csv(f) ==
    IF ~f.exists THEN Exited
    ELSE IF ~f.parses THEN Exited
    ELSE IF ~(RequiredColumns \subseteq f.columns) THEN Exited
    ELSE Loaded(SelectSeq([i \in DOMAIN f.rows |-> WithCleanIsbn(f.rows[i])], IsRelevant))

\* ===========================================================================
\* auth.wait_for_login and main.main
\* ===========================================================================
\* What the browser shows while wait_for_login polls: the signal that ends the
\* loop ("url": /usuario/<digits>, "timeline", "dom": #topo-user), and for the
\* last two what the profile redirect gives (homeOk: page.goto did not raise,
\* homeId: the URL then holds the id).
Logins == [via : {"url", "timeline", "dom"}, homeOk : BOOLEAN, homeId : BOOLEAN]

\* the user_id that wait_for_login returns
wait_for_login(lg) ==
    IF lg.via = "url" THEN "42"
    ELSE IF lg.homeOk /\ lg.homeId THEN "42" ELSE ""

\* main.py lines 55-64: the pre-flight check only looks at the file's existence
MainPreflight ==
    /\ main_pc = "preflight"
    /\ main_pc' = IF direction \in {"to-skoob", "both"} /\ ~csv.exists
                  THEN "exit" ELSE "launch"
    /\ UNCHANGED <<direction, trace, outVars, inVars, csv, stVars>>

MainLaunch_noLogin ==
    /\ main_pc = "launch"
    /\ trace' = Append(trace, Event("launch", 0, "", ""))
    /\ main_pc' = "logged"
    /\ UNCHANGED <<direction, outVars, inVars, csv, stVars>>

\* lines 66-69: the browser is launched and a page opened
MainLaunch ==
    /\ main_pc = "launch"
    /\ trace' = Append(trace, Event("launch", 0, "", ""))
    /\ main_pc' = "login"
    /\ UNCHANGED <<direction, outVars, inVars, csv, stVars>>

\* line 72 and auth.py lines 30-79: navigate to the login page, poll until a
\* login signal shows, resolve the user id
MainLogin ==
    /\ main_pc = "login"
    /\ \E lg \in Logins :
        /\ user_id' = wait_for_login(lg)
        /\ trace' = trace \o
              (IF lg.via = "url" THEN <<Event("login", 0, "goto", lg.via)>>
               ELSE <<Event("login", 0, "goto", lg.via), Event("login", 0, "home", "")>>)
    /\ main_pc' = "logged"
    /\ UNCHANGED <<direction, outVars, in_pc, status_pos, all_books, books,
                   current_page, served, exported, in_signal, returned, csv, stVars>>

\* lines 75-78: load the import (which may exit) and enter sync_to_skoob.run
MainLoad ==
    /\ main_pc = "logged"
    /\ direction \in {"to-skoob", "both"}
    /\ LET r == load_goodreads_csv(csv)
       IN  IF r.exited
           THEN /\ main_pc' = "exit"
                /\ UNCHANGED <<df, out_pc>>
           ELSE /\ main_pc' = "to_skoob"
                /\ df' = r.frame
                /\ out_pc' = "loop"
    /\ UNCHANGED <<direction, trace, seq, queries, failed, failed_seq, failed_file,
                   out_signal, landed, issued, inVars, csv, stVars>>

\* line 75 with direction to-goodreads: the outbound block is not entered
MainSkipOutbound ==
    /\ main_pc = "logged"
    /\ direction = "to-goodreads"
    /\ main_pc' = "between"
    /\ UNCHANGED <<direction, trace, outVars, inVars, csv, stVars>>

\* line 78: sync_to_skoob.run has returned
MainOutboundDone ==
    /\ main_pc = "to_skoob"
    /\ out_pc = "done"
    /\ main_pc' = "between"
    /\ UNCHANGED <<direction, trace, outVars, inVars, csv, stVars>>

\* lines 81-83: enter sync_to_goodreads.run, or pass it over
MainInbound ==
    /\ main_pc = "between"
    /\ IF direction \in {"to-goodreads", "both"}
       THEN /\ main_pc' = "to_goodreads"
            /\ in_pc' = "run"
       ELSE /\ main_pc' = "close"
            /\ in_pc' = in_pc
    /\ UNCHANGED <<direction, trace, outVars, user_id, status_pos, all_books, books,
                   current_page, served, exported, in_signal, returned, csv, stVars>>

\* line 83: sync_to_goodreads.run has returned, or an exception left it (main
\* has no handler: it leaves main too)
MainInboundDone ==
    /\ main_pc = "to_goodreads"
    /\ in_pc \in {"done", "raised"}
    /\ main_pc' = IF in_pc = "done" THEN "close" ELSE "crashed"
    /\ UNCHANGED <<direction, trace, outVars, inVars, csv, stVars>>

\* lines 85-87
MainClose ==
    /\ main_pc = "close"
    /\ trace' = Append(trace, Event("close", 0, "", ""))
    /\ main_pc' = "done"
    /\ UNCHANGED <<direction, outVars, inVars, csv, stVars>>

\* ===========================================================================
\* Specifications
\* ===========================================================================
Directions == {"to-skoob", "to-goodreads"}

InitOutIdle ==
    /\ df = <<>> /\ out_pc = "idle" /\ seq = 1 /\ queries = <<>>
    /\ failed = <<>> /\ failed_seq = <<>> /\ failed_file = NoFile
    /\ out_signal = "none" /\ landed = "none" /\ issued = <<>>

InitInIdle ==
    /\ user_id = "" /\ in_pc = "idle" /\ status_pos = 1 /\ all_books = <<>>
    /\ books = <<>> /\ current_page = 1 /\ served = <<>> /\ exported = NoFile
    /\ in_signal = "none" /\ returned = <<>>

InitMainIdle == main_pc = "idle" /\ csv = NoCsv

InitStIdle ==
    /\ st_target = None /\ st_page = <<>> /\ st_log = <<>> /\ st_ret = "none"

\* main.py lines 75-83 with one direction: run() of either module is entered
\* with its locals initialised (failed = [], all_books = []).
Init ==
    /\ direction \in Directions
    /\ trace = <<>>
    /\ InitMainIdle
    /\ InitStIdle
    /\ IF direction = "to-skoob"
       THEN /\ df \in SeqsUpTo(Rows, MaxRows)
            /\ out_pc = "loop" /\ seq = 1 /\ queries = <<>>
            /\ failed = <<>> /\ failed_seq = <<>> /\ failed_file = NoFile
            /\ out_signal = "none" /\ landed = "none" /\ issued = <<>>
            /\ InitInIdle
       ELSE /\ InitOutIdle
            /\ user_id \in UserIds
            /\ in_pc = "run" /\ status_pos = 1 /\ all_books = <<>>
            /\ books = <<>> /\ current_page = 1 /\ served = <<>>
            /\ exported = NoFile /\ in_signal = "none" /\ returned = <<>>

Next == NextOutbound \/ NextInbound

Spec == Init /\ [][Next]_vars

\* One call of _scrape_shelf on its own, for any mapped status.
InitShelf ==
    /\ direction = "shelf"
    /\ trace = <<>>
    /\ InitOutIdle
    /\ user_id = "42"
    /\ status_pos \in {i \in 1..Len(SKOOB_STATUS_IDS) :
                         SKOOB_STATUS_IDS[i][2] \in DOMAIN SKOOB_TO_GOODREADS_SHELF}
    /\ in_pc = "goto" /\ all_books = <<>> /\ books = <<>> /\ current_page = 1
    /\ served = <<>> /\ exported = NoFile /\ in_signal = "none" /\ returned = <<>>
    /\ InitMainIdle
    /\ InitStIdle

NextShelf == ScrapeStep(Pages(MaxCards, BOOLEAN), MaxPage)

SpecShelf == InitShelf /\ [][NextShelf]_vars

\* The program is sequential: a step that can be taken is taken.
SpecShelfFair == SpecShelf /\ WF_vars(NextShelf)

\* One run of main(): any direction, any import file.
MainDirections == {"to-skoob", "to-goodreads", "both"}

MainCsvRows ==
    [shelf : Shelves, Title : {<<"x">>}, Author : Authors, ISBN13 : {NaN, <<"=", "9">>}]

\* a file that is missing or unreadable has no columns and no rows
CsvFiles(rowSet, maxRows) ==
    { CsvFile(<<>>, FALSE, FALSE, {}), CsvFile(<<>>, TRUE, FALSE, {}) }
    \cup { CsvFile(rows, TRUE, TRUE, columns) :
             rows \in SeqsUpTo(rowSet, maxRows), columns \in SUBSET RequiredColumns }

InitMain ==
    /\ direction \in MainDirections
    /\ trace = <<>>
    /\ main_pc = "preflight"
    /\ csv \in CsvFiles(MainCsvRows, MainMaxRows)
    /\ InitOutIdle
    /\ InitInIdle
    /\ InitStIdle

NextMain ==
    \/ MainPreflight
    \/ MainLaunch
    \/ MainLogin
    \/ MainLoad
    \/ MainSkipOutbound
    \/ (main_pc = "to_skoob" /\ NextOutbound)
    \/ MainOutboundDone
    \/ MainInbound
    \/ (main_pc = "to_goodreads" /\ NextInboundWith(Pages(1, {TRUE}), MainMaxPage))
    \/ MainInboundDone
    \/ MainClose

SpecMain == InitMain /\ [][NextMain]_vars

\* One call of load_goodreads_csv (main.py line 77) on any import file.
LoadShelves == {"read", "to-read", "Read", ""}

LoadCsvRows ==
    [shelf : LoadShelves, Title : {<<"x">>, <<"y">>}, Author : Authors,
     ISBN13 : {NaN, <<"=", "9", "7">>}]

InitLoad ==
    /\ direction = "to-skoob"
    /\ trace = <<>>
    /\ main_pc = "logged"
    /\ csv \in CsvFiles(LoadCsvRows, LoadMaxRows)
    /\ InitOutIdle
    /\ InitInIdle
    /\ InitStIdle

NextLoad == MainLoad

SpecLoad == InitLoad /\ [][NextLoad]_vars

\* One call of _set_status on a detail page, for any target status.
SetStatusTargets == {"Lido", "Lendo", "Quero Ler", "Abandonei"}

\* the page answers the first MaxProbe candidates and the last one in any
\* way; the candidates between are absent
SetStatusPages(target_status) ==
    LET n == Len(Candidates(target_status))
        free == (1..MaxProbe) \cup {n}
    IN  { [i \in 1..n |-> IF i \in free THEN f[i] ELSE "absent"] :
            f \in [free -> ProbeAnswers] }

InitSetStatus ==
    /\ direction = "set_status"
    /\ trace = <<>>
    /\ InitMainIdle
    /\ InitOutIdle
    /\ InitInIdle
    /\ st_target \in SetStatusTargets
    /\ st_page \in SetStatusPages(st_target)
    /\ st_log = <<>>
    /\ st_ret = "none"

NextSetStatus == SetStatusProbe \/ SetStatusExhausted

SpecSetStatus == InitSetStatus /\ [][NextSetStatus]_vars

\* One call of _search_and_open_book up to its query list (lines 99-105), for
\* a record with any title: the title-only query is _clean_title(title).
TitleChars == {"x", " ", "(", ")"}

InitTitle ==
    /\ direction = "clean_title"
    /\ trace = <<>>
    /\ InitMainIdle
    /\ InitInIdle
    /\ InitStIdle
    /\ \E t \in SeqsUpTo(TitleChars, MaxTitleLen) :
          df = << [shelf |-> "read", Title |-> t, Author |-> <<"a">>,
                   clean_isbn |-> <<>>] >>
    /\ out_pc = "loop" /\ seq = 1 /\ queries = <<>>
    /\ failed = <<>> /\ failed_seq = <<>> /\ failed_file = NoFile
    /\ out_signal = "none" /\ landed = "none" /\ issued = <<>>

NextTitle == OutBegin

SpecTitle == InitTitle /\ [][NextTitle]_vars

\* One outbound run over a single record whose title, author or identifier may
\* be empty or blank (run takes any DataFrame with these columns).
LocateTitles == { <<>>, <<" ">>, <<"x">> }
LocateAuthors == { <<>>, <<"a">> }
LocateIsbns == { <<>>, <<" ">>, <<"9">> }

InitLocate ==
    /\ direction = "locate"
    /\ trace = <<>>
    /\ InitMainIdle
    /\ InitInIdle
    /\ InitStIdle
    /\ \E s \in Shelves, t \in LocateTitles, a \in LocateAuthors, i \in LocateIsbns :
          df = << [shelf |-> s, Title |-> t, Author |-> a, clean_isbn |-> i] >>
    /\ out_pc = "loop" /\ seq = 1 /\ queries = <<>>
    /\ failed = <<>> /\ failed_seq = <<>> /\ failed_file = NoFile
    /\ out_signal = "none" /\ landed = "none" /\ issued = <<>>

NextLocate == NextOutbound

SpecLocate == InitLocate /\ [][NextLocate]_vars

\* ===========================================================================
\* Properties
\* ===========================================================================
Range(f) == {f[i] : i \in DOMAIN f}

EventsOf(ops) == {i \in DOMAIN trace : trace[i].op \in ops}

\* the attempts of the locate cascade of row k, in the order they were made
IsSearchOf(k, e) == e.op = "search" /\ e.n = k
Attempts(k) == SelectSeq(trace, LAMBDA e : IsSearchOf(k, e))

Located(k) == \E i \in EventsOf({"locate"}) : trace[i].n = k

\* the number of queries the cascade of row k holds
CascadeLen(k) == IF Strip(df[k].clean_isbn) # <<>> THEN 3 ELSE 2

AllMissed(k) ==
    /\ Len(Attempts(k)) = CascadeLen(k)
    /\ \A i \in DOMAIN Attempts(k) : Attempts(k)[i].result = "False"

Occurrences(q, x) == Cardinality({i \in DOMAIN q : q[i] = x})

\* C1: at the end of the outbound run, every record whose status-setter
\* returned False is in the failure list and so in the persisted side-file.
C1_StatusFailureRecorded ==
    out_pc = "done" =>
        \A i \in EventsOf({"set_status"}) :
            trace[i].result = "False" =>
                /\ failed_file.written
                /\ failed_file.rows = failed
                /\ trace[i].n \in Range(failed_seq)

\* C2: a record whose locate has ended has a failure record exactly when every
\* query attempt of its cascade was made and missed, and then exactly one.
C2_LocateFailureIffAllMissed ==
    \A k \in DOMAIN df :
        Located(k) =>
            /\ (k \in Range(failed_seq)) <=> AllMissed(k)
            /\ Occurrences(failed_seq, k) <= 1

\* C3: no locate or status-set is performed for a row whose shelf is not a key
\* of GOODREADS_TO_SKOOB_SHELF, a status-set uses the mapped status of the row
\* and nothing else, and no shelf page is fetched for a Skoob status without an
\* entry in SKOOB_TO_GOODREADS_SHELF.
MappedStatusIds ==
    {p[1] : p \in {q \in Range(SKOOB_STATUS_IDS) : q[2] \in DOMAIN SKOOB_TO_GOODREADS_SHELF}}

C3_UnmappedNeverProcessed ==
    /\ \A i \in EventsOf({"search", "locate", "set_status"}) :
          df[trace[i].n].shelf \in DOMAIN GOODREADS_TO_SKOOB_SHELF
    /\ \A i \in EventsOf({"set_status"}) :
          trace[i].what = GOODREADS_TO_SKOOB_SHELF[df[trace[i].n].shelf]
    /\ \A i \in EventsOf({"goto"}) : trace[i].n \in MappedStatusIds
    /\ \A i \in DOMAIN failed_seq :
          df[failed_seq[i]].shelf \in DOMAIN GOODREADS_TO_SKOOB_SHELF

\* an unmapped row was passed over and the mapped row after it was processed
C3_Witness ==
    /\ out_pc = "done"
    /\ Len(df) = 2
    /\ df[1].shelf \notin DOMAIN GOODREADS_TO_SKOOB_SHELF
    /\ \E i \in EventsOf({"set_status"}) : trace[i].n = 2

\* C4: the attempts of one record are made in the order identifier,
\* title+author, title-only (the identifier first exactly when the row has
\* one), none is skipped, and no attempt follows one that succeeded.
Rank(label) ==
    CASE label = "ISBN" -> 1
      [] label = "Title+Author" -> 2
      [] label = "Title only" -> 3

C4_CascadeOrder ==
    \A k \in DOMAIN df :
        LET a == Attempts(k)
        IN  /\ a # <<>> =>
                 Rank(a[1].what) = (IF Strip(df[k].clean_isbn) # <<>> THEN 1 ELSE 2)
            /\ \A i \in 1..(Len(a) - 1) :
                 /\ Rank(a[i + 1].what) = Rank(a[i].what) + 1
                 /\ a[i].result # "True"

\* one record was found by its identifier alone, another only by its third attempt
C4_Witness ==
    /\ \E k \in DOMAIN df :
          /\ Len(Attempts(k)) = 1
          /\ Attempts(k)[1].what = "ISBN"
          /\ Attempts(k)[1].result = "True"
    /\ \E k \in DOMAIN df :
          /\ Len(Attempts(k)) = 3
          /\ Attempts(k)[3].result = "True"

\* C5: _search_and_open_book never raises: every call ends with True or False.
C5_LocateNeverRaises ==
    \A i \in EventsOf({"locate"}) : trace[i].result \in {"True", "False"}

\* the page numbers requested from the remote, in the order of the requests
IsGoto(e) == e.op = "goto"
FetchedPages ==
    LET g == SelectSeq(trace, IsGoto) IN [i \in 1..Len(g) |-> g[i].what]

UpTo(n) == [p \in 1..n |-> p]

\* the page just served ends the pagination: it raised, is empty, or shows no
\* next-page link
LastPageServed ==
    /\ served # <<>>
    /\ \/ CurPage.raises
       \/ CurPage.cards = <<>>
       \/ ~CurPage.next

ShelfEnded == in_pc \in {"shelf_ret", "raised"}

NonEmptyWithNext(pg) == ~pg.raises /\ pg.cards # <<>> /\ pg.next

FullPagesThenEmpty ==
    /\ in_pc = "shelf_ret"
    /\ served # <<>>
    /\ ~CurPage.raises
    /\ CurPage.cards = <<>>
    /\ \A p \in 1..(Len(served) - 1) : NonEmptyWithNext(served[p])

\* C7 (as claimed): N non-empty pages followed by an empty page cost exactly N
\* page fetches.
C7_NFetchesForNPages ==
    FullPagesThenEmpty => Len(FetchedPages) = Len(served) - 1

\* C7 (amended): they cost N + 1 fetches, of the pages 1 .. N + 1 in order, the
\* last being the empty page that ends the pagination.
C7_NPlusOneFetches ==
    FullPagesThenEmpty => FetchedPages = UpTo((Len(served) - 1) + 1)

\* two full pages and the empty third one
C7_Witness ==
    /\ FullPagesThenEmpty
    /\ Len(served) = 3

\* the places <<page, card>> of the cards that could be read, on the pages
\* served so far, and the entries they give
UsablePlaces ==
    UNION { { <<p, i>> : i \in {c \in DOMAIN served[p].cards : served[p].cards[c]} } :
            p \in DOMAIN served }

UsableEntries ==
    { [title |-> <<StatusId, pl[1], pl[2]>>,
       shelves |-> SKOOB_TO_GOODREADS_SHELF[StatusLabel]] : pl \in UsablePlaces }

ComesBefore(a, b) ==
    \/ a.title[2] < b.title[2]
    \/ a.title[2] = b.title[2] /\ a.title[3] < b.title[3]

\* C8: a page is requested after page p only if page p showed a next-page
\* link; and when _scrape_shelf returns on a page P without one, it has
\* requested exactly the pages 1 .. P, once each and in order, and returns
\* exactly the readable entries of those pages, in page and card order.
C8_StopsAtLastPage ==
    /\ \A p \in 1..(Len(served) - 1) : NonEmptyWithNext(served[p])
    /\ (in_pc = "shelf_ret" /\ ~CurPage.raises /\ ~CurPage.next) =>
          /\ FetchedPages = UpTo(Len(served))
          /\ Range(books) = UsableEntries
          /\ \A i, j \in DOMAIN books : i < j => ComesBefore(books[i], books[j])

\* two pages, the second full and without a next-page link, one card unreadable
C8_Witness ==
    /\ in_pc = "shelf_ret"
    /\ Len(served) = 2
    /\ ~CurPage.next
    /\ Len(CurPage.cards) = MaxCards
    /\ Len(books) >= 2
    /\ \E p \in DOMAIN served : \E i \in DOMAIN served[p].cards : ~served[p].cards[i]

\* C9: between the remote interactions of two different records of the
\* outbound run there is a jitter, and at the end of the run every processed
\* record was followed by one.
IsRemote(e) == e.op \in {"search", "set_status"}

C9_JitterAfterEveryRecord ==
    /\ \A i, j \in DOMAIN trace :
          (i < j /\ IsRemote(trace[i]) /\ IsRemote(trace[j]) /\ trace[i].n # trace[j].n)
              => \E m \in (i + 1)..(j - 1) : trace[m].op = "jitter"
    /\ out_pc = "done" =>
          \A i \in DOMAIN trace :
              IsRemote(trace[i]) => \E m \in (i + 1)..Len(trace) : trace[m].op = "jitter"

\* C10: between any two page fetches of a run (shelf pages inbound, home-page
\* navigations of the query attempts outbound) there is a jitter.
IsFetch(e) == e.op \in {"goto", "search"}

C10_JitterBetweenFetches ==
    \A i, j \in DOMAIN trace :
        (i < j /\ IsFetch(trace[i]) /\ IsFetch(trace[j]))
            => \E m \in (i + 1)..(j - 1) : trace[m].op = "jitter"

\* C11: a run of main() that ended with an input error of the import file
\* (missing, unreadable, or without a required column) has performed no
\* browser operation: no launch, no navigation to the login page, nothing else.
C11_InputErrorBeforeRemote == main_pc = "exit" => trace = <<>>

\* the login wait has returned
Resolved == main_pc \notin {"idle", "preflight", "launch", "login"}

\* sync_to_skoob.run went through the whole import and returned
OutboundInFull ==
    /\ out_pc = "done"
    /\ df = load_goodreads_csv(csv).frame
    /\ seq = Len(df) + 1
    /\ \A k \in DOMAIN df : IsRelevant(df[k]) => Located(k)
    /\ out_signal \in {"failures", "clean"}

\* C12: once the user id is resolved as empty, no shelf page is ever fetched,
\* no export is written and the inbound run is not left by an exception: it
\* ends with the "no user" message; with direction both, the outbound run has
\* been carried out in full before.
C12_EmptyUserSkipsInbound ==
    (Resolved /\ user_id = "") =>
        /\ EventsOf({"goto"}) = {}
        /\ ~exported.written
        /\ in_pc \in {"idle", "run", "done"}
        /\ main_pc # "crashed"
        /\ in_pc = "done" => in_signal = "no_user"
        /\ (direction = "both" /\ in_pc # "idle") => OutboundInFull

\* direction both with an empty user id: a record got its status set, the
\* inbound run was passed over, and main ended normally
C12_Witness ==
    /\ direction = "both"
    /\ main_pc = "done"
    /\ user_id = ""
    /\ in_signal = "no_user"
    /\ EventsOf({"set_status"}) # {}

\* the inbound run is over: run() returned, or an exception left it
RunOver == in_pc \in {"done", "raised"}

ScrapedStatusIds == {trace[i].n : i \in EventsOf({"goto"})}

\* the entries gathered so far: those of the shelves that returned, and those
\* of the pages read on the shelf whose pagination a fault ended
Gathered == all_books \o (IF in_pc = "raised" THEN books ELSE <<>>)

\* C13: when the inbound run (with a user id) is over, every mapped shelf was
\* scraped and the entries gathered were handed to the export generator, also
\* when loading or reading a page of some shelf raised.
C13_ShelfFaultNotFatal ==
    (RunOver /\ user_id # "") =>
        /\ MappedStatusIds \subseteq ScrapedStatusIds
        /\ Gathered # <<>> =>
              /\ exported.written
              /\ Range(Gathered) \subseteq Range(exported.rows)

\* the records whose locate has ended, in the order in which it ended
IsLocate(e) == e.op = "locate"
LocatedOrder ==
    LET l == SelectSeq(trace, IsLocate) IN [i \in 1..Len(l) |-> l[i].n]

IsSetStatus(e) == e.op = "set_status"
StatusSetOrder ==
    LET l == SelectSeq(trace, IsSetStatus) IN [i \in 1..Len(l) |-> l[i].n]

StrictlyIncreasing(q) == \A i, j \in DOMAIN q : i < j => q[i] < q[j]

\* C14: a record whose locate was ended by an exception is in the failure
\* list; records are processed in import order, each at most once, and at the
\* end of the run every mapped record has been processed exactly once; no
\* record is in the failure list twice, and the list holds the rows themselves.
C14_FaultNotFatal ==
    /\ \A i \in EventsOf({"search"}) :
          trace[i].result = "Raise" => trace[i].n \in Range(failed_seq)
    /\ StrictlyIncreasing(LocatedOrder)
    /\ StrictlyIncreasing(StatusSetOrder)
    /\ StrictlyIncreasing(failed_seq)
    /\ failed = [i \in DOMAIN failed_seq |-> df[failed_seq[i]]]
    /\ out_pc = "done" =>
          Range(LocatedOrder) = {k \in DOMAIN df : TargetStatus(df[k].shelf) # None}

\* the locate of the first record raised, and the second record still got its
\* status set
C14_Witness ==
    /\ out_pc = "done"
    /\ Len(df) = 2
    /\ \E i \in EventsOf({"search"}) : trace[i].n = 1 /\ trace[i].result = "Raise"
    /\ failed_seq = <<1>>
    /\ \E i \in EventsOf({"set_status"}) : trace[i].n = 2

\* while the loop of run() is not over nothing is persisted; a side-file that
\* exists was written after the last record, from a non-empty failure list,
\* and holds that list; at the end there is a side-file exactly when the list
\* is non-empty, and a clean run is signalled exactly when it is empty
SideFileAtEnd ==
    /\ out_pc # "done" => (failed_file = NoFile /\ out_signal = "none")
    /\ failed_file.written =>
          /\ out_pc = "done"
          /\ seq = Len(df) + 1
          /\ failed # <<>>
          /\ failed_file.rows = failed
    /\ out_pc = "done" =>
          /\ failed_file.written <=> failed # <<>>
          /\ out_signal = (IF failed = <<>> THEN "clean" ELSE "failures")

\* the side-file is written in one step, the one that ends the run, and never
\* written again
SideFileWrittenOnce ==
    failed_file' # failed_file =>
        /\ failed_file = NoFile
        /\ out_pc # "done"
        /\ out_pc' = "done"

\* C15: the failure side-file is written at most once per outbound run, only
\* after the last record, exactly when the failure list is then non-empty (and
\* then it holds the recorded failures in order); otherwise none is written
\* and a clean run is signalled; nothing is persisted before the loop ends.
C15_SideFileOnceAtEnd == []SideFileAtEnd /\ [][SideFileWrittenOnce]_vars

\* a run that persisted two failures
C15_Witness ==
    /\ out_pc = "done"
    /\ failed_file.written
    /\ Len(failed_file.rows) = 2
    /\ out_signal = "failures"

RECURSIVE Flatten(_)
Flatten(qs) == IF qs = <<>> THEN <<>> ELSE Head(qs) \o Flatten(Tail(qs))

\* the statuses with a Goodreads shelf, in the order of SKOOB_STATUS_IDS
IsMappedStatus(p) == p[2] \in DOMAIN SKOOB_TO_GOODREADS_SHELF
MappedStatusSeq == SelectSeq(SKOOB_STATUS_IDS, IsMappedStatus)

\* nothing is exported or signalled before run() ends; an export was made at
\* the end, after every mapped status returned its list, from the non-empty
\* concatenation of those lists in status order; at the end there is an export
\* exactly when that concatenation is non-empty, else "nothing found"
ExportAtEnd ==
    user_id # "" =>
        /\ in_pc # "done" => (~exported.written /\ in_signal = "none")
        /\ Len(returned) <= Len(MappedStatusSeq)
        /\ \A i \in DOMAIN returned : \A j \in DOMAIN returned[i] :
              returned[i][j].title[1] = MappedStatusSeq[i][1]
        /\ exported.written =>
              /\ in_pc = "done"
              /\ exported.rows # <<>>
              /\ exported.rows = Flatten(returned)
        /\ in_pc = "done" =>
              /\ Len(returned) = Len(MappedStatusSeq)
              /\ exported.written <=> Flatten(returned) # <<>>
              /\ in_signal = (IF Flatten(returned) = <<>> THEN "nothing_found"
                              ELSE "exported")

ExportedOnce ==
    exported' # exported =>
        /\ exported = NoFile
        /\ in_pc # "done"
        /\ in_pc' = "done"

\* C16: in the inbound run with a user id, the export generator is called at
\* most once, after all mapped statuses were paginated, exactly when the
\* combined list is non-empty, with the per-shelf lists concatenated in status
\* order; with an empty combined list nothing is exported and "nothing found"
\* is signalled.
C16_ExportOnceAtEnd == []ExportAtEnd /\ [][ExportedOnce]_vars

\* an export made of the first and the third shelf, the second being empty
C16_Witness ==
    /\ in_pc = "done"
    /\ exported.written
    /\ Len(returned) = 3
    /\ returned[1] # <<>>
    /\ returned[2] = <<>>
    /\ returned[3] # <<>>

\* C17: whatever the status-setter meets on the detail page (nothing left to
\* click because the status is already set: it returns False; a click that
\* changes nothing: it returns True), the record gets no failure record: the
\* failure list only holds records whose locate missed or raised.
C17_AlreadySetNotFailure ==
    /\ \A i \in EventsOf({"set_status"}) : trace[i].n \notin Range(failed_seq)
    /\ \A k \in Range(failed_seq) :
          \E i \in EventsOf({"locate"}) : trace[i].n = k /\ trace[i].result # "True"

\* a run over two records on whose pages the status-setter found nothing to
\* click, ended without a failure
C17_Witness ==
    /\ out_pc = "done"
    /\ Len(StatusSetOrder) = 2
    /\ \A i \in EventsOf({"set_status"}) : trace[i].result = "False"
    /\ failed = <<>>
    /\ ~failed_file.written

\* the positions of the import's rows whose shelf is a key of the mapping, and
\* the k-th of them
MappedPositions ==
    {i \in DOMAIN csv.rows : csv.rows[i].shelf \in DOMAIN GOODREADS_TO_SKOOB_SHELF}

MappedPosition(k) ==
    CHOOSE i \in MappedPositions : Cardinality({j \in MappedPositions : j <= i}) = k

\* C18: the DataFrame that load_goodreads_csv returns holds exactly the rows
\* of the import whose shelf is a key of GOODREADS_TO_SKOOB_SHELF, each once
\* and in import order, with their columns unchanged.
C18_LoadKeepsMapped ==
    main_pc = "to_skoob" =>
        /\ Len(df) = Cardinality(MappedPositions)
        /\ \A k \in DOMAIN df :
              LET r == csv.rows[MappedPosition(k)]
              IN  /\ df[k].shelf = r.shelf
                  /\ df[k].Title = r.Title
                  /\ df[k].Author = r.Author
                  /\ df[k].ISBN13 = r.ISBN13

\* two rows, the first unmapped and the second mapped, gave one record
C18_Witness ==
    /\ main_pc = "to_skoob"
    /\ Len(csv.rows) = 2
    /\ csv.rows[1].shelf = "to-read"
    /\ csv.rows[2].shelf = "read"
    /\ Len(df) = 1
    /\ df[1].Title = csv.rows[2].Title

\* C19: _set_status ends with True or False and never with an exception; the
\* candidates are probed in the order of the cascade, none left out, also
\* after a probe that raised; True is returned on the first click that went
\* through, False only after every candidate of the three strategies was
\* probed without one.
C19_SetStatusNeverRaises ==
    /\ st_ret \in {"none", "True", "False"}
    /\ Len(st_log) <= Len(Candidates(st_target))
    /\ \A i \in DOMAIN st_log :
          /\ st_log[i].cand = Candidates(st_target)[i]
          /\ st_log[i].answer = st_page[i]
          /\ i < Len(st_log) => st_log[i].answer # "ok"
    /\ st_ret = "True" => (st_log # <<>> /\ st_log[Len(st_log)].answer = "ok")
    /\ st_ret = "False" =>
          /\ Len(st_log) = Len(Candidates(st_target))
          /\ \A i \in DOMAIN st_log : st_log[i].answer # "ok"
    /\ st_ret # "none" =>
          st_ret = BoolStr(_set_status([probe |-> st_page], st_target))

\* the click of the first candidate raised, and the last id selector was then
\* clicked
C19_Witness ==
    /\ st_ret = "True"
    /\ st_log[1].answer = "click_raises"
    /\ Len(st_log) = Len(Candidates(st_target))
    /\ st_log[Len(st_log)].cand = Candidate("id", "#btn-status-3")

\* the position of the "(" that the ")" at the end of s closes, 0 if there is
\* none: going left from position i with depth parentheses still open
RECURSIVE OpenOf(_, _, _)
OpenOf(s, i, depth) ==
    IF i = 0 THEN 0
    ELSE IF s[i] = ")" THEN OpenOf(s, i - 1, depth + 1)
    ELSE IF s[i] = "(" THEN (IF depth = 1 THEN i ELSE OpenOf(s, i - 1, depth - 1))
    ELSE OpenOf(s, i - 1, depth)

\* the title ends (up to whitespace) with a parenthetical that is a suffix of
\* something: text that is not blank stands before it
EndsWithParenthetical(t) ==
    LET s == RStrip(t)
    IN  /\ s # <<>>
        /\ s[Len(s)] = ")"
        /\ OpenOf(s, Len(s), 0) > 0
        /\ Strip(SubSeq(s, 1, OpenOf(s, Len(s), 0) - 1)) # <<>>

\* the title without its last parenthetical and the whitespace around it
WithoutLastParenthetical(t) ==
    LET s == RStrip(t)
    IN  RStrip(SubSeq(s, 1, OpenOf(s, Len(s), 0) - 1))

\* the cleaned title that _search_and_open_book computed for the record
CleanedTitle == queries[Len(queries)].text

\* C20: for a title that ends with a parenthetical the cleaned title is the
\* title without that last parenthetical and the whitespace around it, nothing
\* else removed; for any other title it is the title itself.
C20_CleanTitleExact ==
    (direction = "clean_title" /\ out_pc = "search") =>
        CleanedTitle = (IF EndsWithParenthetical(df[1].Title)
                        THEN WithoutLastParenthetical(df[1].Title)
                        ELSE df[1].Title)

\* ---------------------------------------------------------------------------
\* C21: _set_status is called only right after _search_and_open_book returned
\* True for the same row, and that result arises only from an attempt that
\* clicked a dropdown result and ended on a URL holding "/livro/": every
\* set_status event directly follows a locate event of the same row with
\* result True, and whenever the last interaction is a True locate or a
\* set_status, the page is a book detail page.
\* ---------------------------------------------------------------------------
LastEvent == trace[Len(trace)]

C21_StatusOnlyOnDetailPage ==
    /\ \A i \in DOMAIN trace :
          IsSetStatus(trace[i]) =>
             /\ i > 1
             /\ IsLocate(trace[i - 1])
             /\ trace[i - 1].n = trace[i].n
             /\ trace[i - 1].result = "True"
    /\ (trace # <<>> /\ IsLocate(LastEvent) /\ LastEvent.result = "True")
          => landed = "livro"
    /\ (trace # <<>> /\ IsSetStatus(LastEvent)) => landed = "livro"
    /\ out_pc = "status" => landed = "livro"

\* The second row's status is set after the first row's locate missed.
C21_Witness ==
    /\ trace # <<>> /\ IsSetStatus(LastEvent) /\ LastEvent.n = 2
    /\ \E i \in DOMAIN trace :
          IsLocate(trace[i]) /\ trace[i].n = 1 /\ trace[i].result = "False"

\* ---------------------------------------------------------------------------
\* C22: no query that is empty after trimming whitespace is issued to the
\* remote search, whichever of the three strategies built it.
\* ---------------------------------------------------------------------------
IsBlank(text) == Strip(text) = <<>>

C22_NoBlankQueryIssued == \A i \in DOMAIN issued : ~IsBlank(issued[i])

\* ---------------------------------------------------------------------------
\* C23: _set_status follows a fixed strategy order and stops at the first
\* click: for each text variant the button role is probed before the link
\* role, the generic text match only after every role lookup of every variant
\* failed, the id table only after every text match failed, and at most one
\* click is performed in one invocation.
\* ---------------------------------------------------------------------------
ProbesOfKind(kinds) == {i \in DOMAIN st_log : st_log[i].cand.kind \in kinds}

\* the probes that clicked: the click went through, whether or not the wait
\* after it raised
Clicks == {i \in DOMAIN st_log : st_log[i].answer \in {"ok", "wait_raises"}}

StrategyOrder ==
    LET texts == texts_to_try(st_target)
        probedWith(kind) == {st_log[i].cand.arg : i \in ProbesOfKind({kind})}
    IN  /\ \A i \in ProbesOfKind({"link"}) :
              /\ i > 1
              /\ st_log[i - 1].cand = Candidate("button", st_log[i].cand.arg)
        /\ \A i \in ProbesOfKind({"button", "link"}), j \in ProbesOfKind({"css", "id"}) :
              i < j
        /\ \A i \in ProbesOfKind({"css"}), j \in ProbesOfKind({"id"}) : i < j
        /\ ProbesOfKind({"css"}) # {} =>
              /\ probedWith("button") = Range(texts)
              /\ probedWith("link") = Range(texts)
        /\ ProbesOfKind({"id"}) # {} => probedWith("css") = Range(texts)
        /\ \A i \in DOMAIN st_log : i < Len(st_log) => st_log[i].answer # "ok"

C23_OrderedSingleClick ==
    /\ StrategyOrder
    /\ Cardinality(Clicks) <= 1

\* ---------------------------------------------------------------------------
\* C24: the id-table strategy probes only the identifiers of the target
\* status, never clicks the identifier of another status, and a True result
\* means that a control of the target status was clicked.
\* ---------------------------------------------------------------------------
\* the status each identifier of the table names (status ids 1, 2, 3 are
\* those of SKOOB_STATUS_IDS)
IdSelectorStatus(sel) ==
    CASE sel \in {"#bt_lido", "#btn-lido", "#btn-status-1"} -> "Lido"
      [] sel \in {"#bt_lendo", "#btn-lendo", "#btn-status-2"} -> "Lendo"
      [] sel \in {"#bt_quero", "#btn-quero", "#btn-status-3"} -> "Quero Ler"

C24_IdsOfTargetOnly ==
    \A i \in ProbesOfKind({"id"}) :
        IdSelectorStatus(st_log[i].cand.arg) = st_target

\* ---------------------------------------------------------------------------
\* C25: the clean-run signal is given only when every mapped record was
\* located and its status-setter returned True; a record not found or a
\* status-setter that returned False keeps the signal from being given.
\* ---------------------------------------------------------------------------
MappedRows == {k \in DOMAIN df : TargetStatus(df[k].shelf) # None}

\* the part about locating: a clean run located every mapped record
CleanMeansAllLocated ==
    out_signal = "clean" =>
        \A k \in MappedRows :
            \E i \in EventsOf({"locate"}) : trace[i].n = k /\ trace[i].result = "True"

C25_CleanMeansAllSet ==
    out_signal = "clean" =>
        \A k \in MappedRows :
            /\ \E i \in EventsOf({"locate"}) :
                  trace[i].n = k /\ trace[i].result = "True"
            /\ \E i \in EventsOf({"set_status"}) :
                  trace[i].n = k /\ trace[i].result = "True"

\* ---------------------------------------------------------------------------
\* C26: main waits for the login exactly once, and no sync operation (query
\* attempt, locate result, status-setter, shelf page fetch) happens before the
\* login wait has seen a signal and returned; with direction both, the
\* outbound run is over, its side-file written, before the first inbound
\* shelf page is fetched.
\* ---------------------------------------------------------------------------
LoginWaits == {i \in DOMAIN trace : trace[i].op = "login" /\ trace[i].what = "goto"}

OutboundOps == EventsOf({"search", "locate", "set_status"})

SyncOps == OutboundOps \cup EventsOf({"goto"})

C26_LoginOnceBeforeSync ==
    /\ Cardinality(LoginWaits) <= 1
    /\ main_pc \notin {"idle", "preflight", "launch", "login", "exit"}
          => Cardinality(LoginWaits) = 1
    /\ SyncOps # {} => main_pc \notin {"preflight", "launch", "login"}
    /\ \A i \in SyncOps :
          /\ \E j \in LoginWaits : j < i
          /\ \A j \in EventsOf({"login"}) : j < i
    /\ (direction = "both" /\ EventsOf({"goto"}) # {}) =>
          /\ out_pc = "done"
          /\ out_signal # "none"
          /\ failed # <<>> => failed_file = File(failed)
          /\ \A i \in OutboundOps, j \in EventsOf({"goto"}) : i < j

\* direction both: the login resolved the user id from the home page, a
\* record was not found and the side-file written, then a shelf page fetched
C26_Witness ==
    /\ direction = "both"
    /\ \E i \in EventsOf({"login"}) : trace[i].what = "home"
    /\ failed_file.written
    /\ EventsOf({"goto"}) # {}

\* ---------------------------------------------------------------------------
\* C27: every entry gathered by the inbound run, and every entry handed to
\* the export generator, carries the Goodreads shelf that
\* SKOOB_TO_GOODREADS_SHELF gives to the Skoob status whose pages it was
\* scraped from, one of read, currently-reading and to-read.
\* ---------------------------------------------------------------------------
LabelOfStatusId(sid) ==
    LET p == CHOOSE q \in DOMAIN SKOOB_STATUS_IDS : SKOOB_STATUS_IDS[q][1] = sid
    IN  SKOOB_STATUS_IDS[p][2]

\* the entry's title holds the status id of the shelf page it was read from
ShelfAsScraped(book) ==
    /\ book.shelves \in {"read", "currently-reading", "to-read"}
    /\ LabelOfStatusId(book.title[1]) \in DOMAIN SKOOB_TO_GOODREADS_SHELF
    /\ book.shelves = SKOOB_TO_GOODREADS_SHELF[LabelOfStatusId(book.title[1])]

C27_EntriesCarryMappedShelf ==
    /\ \A i \in DOMAIN all_books : ShelfAsScraped(all_books[i])
    /\ \A i \in DOMAIN books : ShelfAsScraped(books[i])
    /\ exported.written => \A i \in DOMAIN exported.rows : ShelfAsScraped(exported.rows[i])

\* an export with entries of all three mapped shelves
C27_Witness ==
    /\ exported.written
    /\ {exported.rows[i].shelves : i \in DOMAIN exported.rows}
          = {"read", "currently-reading", "to-read"}

====
